---- MODULE Spec2Model ----
(***************************************************************************)
(* A model of src/Islands.py: the EarthViewerFrame of the 3D earth viewer. *)
(*                                                                         *)
(* Units.  TLA+ has integers only, so every quantity is kept in the unit   *)
(* in which the program changes it by whole steps:                         *)
(*   zoom                     tenths        (zoom_increment = 0.1)         *)
(*   rotation_angle_x/y       half degrees  (a pixel of drag is 0.5 deg)   *)
(*   sphere_rotation_x/y/z    whole degrees (the sliders' values)          *)
(*   positions                tenths        (radius = 2.5)                 *)
(*   transformed populations  thousandths   (np.log1p, rounded)            *)
(* Normalized populations and colour components are exact rationals        *)
(* <<numerator, denominator>> in lowest terms: the program's float32       *)
(* rounding is not modelled.                                               *)
(***************************************************************************)
EXTENDS Integers, Sequences, FiniteSets, TLC

(***************************************************************************)
(* Bounds of the model.                                                    *)
(***************************************************************************)
\* Mouse events carry pixel coordinates in 0..MaxPix.
MaxPix == 1
\* Drag events are explored while both cloud angles stay within MaxRot half degrees.
MaxRot == 2
\* Outside SpecZoom, wheel events are explored within MaxNotch notches of the initial zoom.
MaxNotch == 1
\* Data rows of the input files.
MaxRows == 3
\* Largest population value written in an input file.
MaxPop == 3
\* Data rows of the input files of SpecRoundTrip.
MaxTripRows == 2

(***************************************************************************)
(* Python values.                                                          *)
(***************************************************************************)
\* None, for the string-valued places (a cell DictReader filled with restval,
\* an absent parameter, no exception).
PyNone == "None"
\* An optional array: <<>> is None (or an attribute never assigned), <<a>> is a.
NoArray == <<>>
Array(a) == <<a>>
Get(o) == o[1]

Abs(n) == IF n < 0 THEN -n ELSE n
Min(a, b) == IF a < b THEN a ELSE b
Max(a, b) == IF a > b THEN a ELSE b

(***************************************************************************)
(* Exact rationals <<n, d>>, d > 0, in lowest terms.                       *)
(***************************************************************************)
RECURSIVE Gcd(_, _)
Gcd(a, b) == IF b = 0 THEN a ELSE Gcd(b, a % b)

Sign(n) == IF n < 0 THEN -1 ELSE IF n > 0 THEN 1 ELSE 0

\* n / d.  A zero denominator gives what IEEE division gives: <<1, 0>> is inf,
\* <<-1, 0>> is -inf and <<0, 0>> is nan.
Rat(n, d) ==
    IF d = 0 THEN <<Sign(n), 0>>
    ELSE LET s == IF d < 0 THEN -1 ELSE 1
             g == Gcd(Abs(n), Abs(d))
         IN  <<(s * n) \div g, (s * d) \div g>>

IsNaN(a) == a = <<0, 0>>
IsFinite(a) == a[2] # 0

R(n) == <<n, 1>>
\* A decimal literal of the source: Dec(33, 100) is 0.33.
Dec(n, d) == Rat(n, d)
RAdd(a, b) == Rat(a[1] * b[2] + b[1] * a[2], a[2] * b[2])
RSub(a, b) == Rat(a[1] * b[2] - b[1] * a[2], a[2] * b[2])
RMul(a, b) == Rat(a[1] * b[1], a[2] * b[2])
\* Comparisons; every comparison with nan is false, and the infinities lie
\* beyond every finite value.
Rank(a) == IF IsFinite(a) THEN 0 ELSE 2 * a[1]
RLt(a, b) ==
    /\ ~IsNaN(a) /\ ~IsNaN(b)
    /\ IF IsFinite(a) /\ IsFinite(b) THEN a[1] * b[2] < b[1] * a[2] ELSE Rank(a) < Rank(b)
RLe(a, b) ==
    /\ ~IsNaN(a) /\ ~IsNaN(b)
    /\ IF IsFinite(a) /\ IsFinite(b) THEN a[1] * b[2] <= b[1] * a[2] ELSE Rank(a) <= Rank(b)
RAbs(a) == <<Abs(a[1]), a[2]>>
\* Python's float %, for a positive modulus m: a - m * floor(a / m).
RFloor(a) == a[1] \div a[2]
RMod(a, m) ==
    IF ~IsFinite(a) THEN <<0, 0>>
    ELSE RSub(a, RMul(m, R(RFloor(Rat(a[1] * m[2], a[2] * m[1])))))
InUnit(a) == IsFinite(a) /\ RLe(R(0), a) /\ RLe(a, R(1))

(***************************************************************************)
(* The input file and csv.DictReader.                                      *)
(*                                                                         *)
(* A text is a sequence of characters.  A file is                          *)
(*   [exists |-> BOOLEAN, header |-> <<column names>>, rows |-> <<rows>>]  *)
(* and a row is the sequence of its cells' texts, possibly shorter or      *)
(* longer than the header.                                                 *)
(***************************************************************************)
DigitValue ==
    ("0" :> 0) @@ ("1" :> 1) @@ ("2" :> 2) @@ ("3" :> 3) @@ ("4" :> 4) @@
    ("5" :> 5) @@ ("6" :> 6) @@ ("7" :> 7) @@ ("8" :> 8) @@ ("9" :> 9)

\* A value of the dict DictReader yields: a str, or None.
Str(t) == [isNone |-> FALSE, text |-> t]
NoneValue == [isNone |-> TRUE, text |-> <<>>]

\* The dict of one row: header[i] |-> cells[i]; a column the row has no cell
\* for gets restval, which is None; cells beyond the header are not under a
\* column name.
DictRow(header, cells) ==
    [c \in {header[i] : i \in 1..Len(header)} |->
        LET i == CHOOSE j \in 1..Len(header) : header[j] = c
        IN  IF i <= Len(cells) THEN Str(cells[i]) ELSE NoneValue]

\* DictReader skips the rows that have no cell at all (blank lines).
DictReader(file) ==
    LET kept == SelectSeq(file.rows, LAMBDA cells : cells # <<>>)
    IN  [i \in 1..Len(kept) |-> DictRow(file.header, kept[i])]

RECURSIVE DigitsValue(_, _)
DigitsValue(t, acc) ==
    IF t = <<>> THEN acc ELSE DigitsValue(Tail(t), 10 * acc + DigitValue[Head(t)])

IsDigits(t) == t # <<>> /\ \A i \in 1..Len(t) : t[i] \in DOMAIN DigitValue

\* Python's float(v), on the texts of the model (an optional sign and decimal
\* digits): [exc, val].
float(v) ==
    IF v.isNone THEN [exc |-> "TypeError", val |-> 0]
    ELSE IF IsDigits(v.text) THEN [exc |-> PyNone, val |-> DigitsValue(v.text, 0)]
    ELSE IF v.text # <<>> /\ Head(v.text) = "-" /\ IsDigits(Tail(v.text))
         THEN [exc |-> PyNone, val |-> -DigitsValue(Tail(v.text), 0)]
    ELSE [exc |-> "ValueError", val |-> 0]

\* The truth value of a dict value: None and '' are false.
Truthy(v) == ~v.isNone /\ v.text # <<>>

\* math.sin and math.cos of math.radians(a), exact at the multiples of 90.
SinDeg(a) == CASE a % 360 = 0 -> 0 [] a % 360 = 90 -> 1
               [] a % 360 = 180 -> 0 [] a % 360 = 270 -> -1
CosDeg(a) == SinDeg(a + 90)

\* The projection of generate_points_from_csv.
Project(lat, lon, radius) ==
    LET theta == 90 - lat
        phi == lon
        x == (-radius) * SinDeg(theta) * CosDeg(phi)
        y == radius * CosDeg(theta)
        z == radius * SinDeg(theta) * SinDeg(phi)
    IN  <<x, y, z>>

PopCols == <<"Population", "population", "POPULATION", "Pop", "pop">>

\* The loop over the population column names, from the i-th on.
RECURSIVE RowPopulation(_, _)
RowPopulation(row, i) ==
    IF i > Len(PopCols) THEN 0
    ELSE IF PopCols[i] \in DOMAIN row /\ Truthy(row[PopCols[i]])
         THEN LET f == float(row[PopCols[i]])
              IN  IF f.exc = PyNone THEN f.val ELSE RowPopulation(row, i + 1)
         ELSE RowPopulation(row, i + 1)

\* The body of the loop for one row: [exc, point, pop], exc the exception that
\* leaves the inner try block (KeyError, ValueError, TypeError) or None.
ParseRow(row, radius) ==
    IF "Latitude" \notin DOMAIN row THEN [exc |-> "KeyError", point |-> <<>>, pop |-> 0]
    ELSE LET lat == float(row["Latitude"])
         IN  IF lat.exc # PyNone THEN [exc |-> lat.exc, point |-> <<>>, pop |-> 0]
             ELSE IF "Longitude" \notin DOMAIN row
                  THEN [exc |-> "KeyError", point |-> <<>>, pop |-> 0]
             ELSE LET lon == float(row["Longitude"])
                  IN  IF lon.exc # PyNone THEN [exc |-> lon.exc, point |-> <<>>, pop |-> 0]
                      ELSE [exc |-> PyNone,
                            point |-> Project(lat.val, lon.val, radius),
                            pop |-> RowPopulation(row, 1)]

\* The exceptions the loop's except clause swallows.
Swallowed == {"ValueError", "KeyError"}

\* The loop over the rows from the i-th on, with the lists built so far.
RECURSIVE ReadRows(_, _, _, _, _)
ReadRows(rows, i, radius, points, pops) ==
    IF i > Len(rows) THEN [exc |-> PyNone, points |-> points, populations |-> pops]
    ELSE LET r == ParseRow(rows[i], radius)
         IN  IF r.exc = PyNone
             THEN ReadRows(rows, i + 1, radius, Append(points, r.point), Append(pops, r.pop))
             ELSE IF r.exc \in Swallowed
                  THEN ReadRows(rows, i + 1, radius, points, pops)
                  ELSE [exc |-> r.exc, points |-> <<>>, populations |-> <<>>]

\* generate_points_from_csv: [exc, points, populations]; exc is the exception
\* it raises, and then nothing is returned.
generate_points_from_csv(file, radius) ==
    IF ~file.exists
    THEN [exc |-> "FileNotFoundError", points |-> <<>>, populations |-> <<>>]
    ELSE ReadRows(DictReader(file), 1, radius, <<>>, <<>>)

(***************************************************************************)
(* Normalization and the colour schemes.                                   *)
(***************************************************************************)
\* np.log1p of a population, in thousandths.
Log1p(v) ==
    CASE v = 0 -> 0 [] v = 1 -> 693 [] v = 2 -> 1099 [] v = 3 -> 1386 [] v = 4 -> 1609
      [] v = 5 -> 1792 [] v = 6 -> 1946 [] v = 7 -> 2079 [] v = 8 -> 2197 [] v = 9 -> 2303

\* pop_values, in thousandths, for either value of the flag.
Transform(populations, logarithmic) ==
    [i \in 1..Len(populations) |->
        IF logarithmic THEN Log1p(populations[i]) ELSE 1000 * populations[i]]

SeqMin(s) == CHOOSE m \in {s[i] : i \in 1..Len(s)} : \A i \in 1..Len(s) : m <= s[i]
SeqMax(s) == CHOOSE m \in {s[i] : i \in 1..Len(s)} : \A i \in 1..Len(s) : m >= s[i]

\* np.maximum(0, x): nan stays nan.
Maximum0_NoClamp(x) == x
Maximum0(x) == IF IsNaN(x) THEN x ELSE IF RLt(x, R(0)) THEN R(0) ELSE x

\* The test that guards the division.
RangeIsPositive_NoGuard(min_pop, max_pop) == TRUE
RangeIsPositive(min_pop, max_pop) == max_pop > min_pop

\* normalized_pops of compute_population_colors.
Normalize(populations, logarithmic) ==
    LET pop_values == Transform(populations, logarithmic)
        valid_pops == SelectSeq(pop_values, LAMBDA v : v > 0)
        zeros == [i \in 1..Len(pop_values) |-> R(0)]
    IN  IF Len(valid_pops) = 0 THEN zeros
        ELSE LET min_pop == SeqMin(valid_pops)
                 max_pop == SeqMax(valid_pops)
             IN  IF RangeIsPositive(min_pop, max_pop)
                 THEN [i \in 1..Len(pop_values) |->
                          Maximum0(Rat(pop_values[i] - min_pop, max_pop - min_pop))]
                 ELSE zeros

\* hsv_to_rgb.
hsv_to_rgb(h0, s, v) ==
    LET h == RMod(h0, R(360))
        c == RMul(v, s)
        x == RMul(c, RSub(R(1), RAbs(RSub(RMod(RMul(h, Dec(1, 60)), R(2)), R(1)))))
        m == RSub(v, c)
        rgb == IF RLe(R(0), h) /\ RLt(h, R(60)) THEN <<c, x, R(0)>>
               ELSE IF RLe(R(60), h) /\ RLt(h, R(120)) THEN <<x, c, R(0)>>
               ELSE IF RLe(R(120), h) /\ RLt(h, R(180)) THEN <<R(0), c, x>>
               ELSE IF RLe(R(180), h) /\ RLt(h, R(240)) THEN <<R(0), x, c>>
               ELSE IF RLe(R(240), h) /\ RLt(h, R(300)) THEN <<x, R(0), c>>
               ELSE <<c, R(0), x>>
    IN  <<RAdd(rgb[1], m), RAdd(rgb[2], m), RAdd(rgb[3], m)>>

\* a + b * t, the shape of every interpolated component.
Lin(a, b, t) == RAdd(a, RMul(b, t))

Plasma(val) ==
    IF RLt(val, Dec(25, 100))
    THEN LET t == RMul(val, R(4))
         IN  <<Lin(Dec(1, 10), Dec(4, 10), t), R(0), Lin(Dec(3, 10), Dec(4, 10), t), Dec(8, 10)>>
    ELSE IF RLt(val, Dec(5, 10))
    THEN LET t == RMul(RSub(val, Dec(25, 100)), R(4))
         IN  <<Lin(Dec(5, 10), Dec(3, 10), t), RMul(Dec(1, 10), t),
               Lin(Dec(7, 10), Dec(-2, 10), t), Dec(9, 10)>>
    ELSE IF RLt(val, Dec(75, 100))
    THEN LET t == RMul(RSub(val, Dec(5, 10)), R(4))
         IN  <<Lin(Dec(8, 10), Dec(2, 10), t), Lin(Dec(1, 10), Dec(4, 10), t),
               Lin(Dec(5, 10), Dec(-5, 10), t), R(1)>>
    ELSE LET t == RMul(RSub(val, Dec(75, 100)), R(4))
         IN  <<R(1), Lin(Dec(5, 10), Dec(5, 10), t), R(0), R(1)>>

Viridis(val) ==
    IF RLt(val, Dec(25, 100))
    THEN LET t == RMul(val, R(4))
         IN  <<RMul(Dec(3, 10), t), R(0), Lin(Dec(4, 10), Dec(2, 10), t), Dec(8, 10)>>
    ELSE IF RLt(val, Dec(5, 10))
    THEN LET t == RMul(RSub(val, Dec(25, 100)), R(4))
         IN  <<Lin(Dec(3, 10), Dec(-1, 10), t), RMul(Dec(2, 10), t),
               Lin(Dec(6, 10), Dec(2, 10), t), Dec(9, 10)>>
    ELSE IF RLt(val, Dec(75, 100))
    THEN LET t == RMul(RSub(val, Dec(5, 10)), R(4))
         IN  <<RMul(Dec(2, 10), t), Lin(Dec(2, 10), Dec(6, 10), t),
               Lin(Dec(8, 10), Dec(-4, 10), t), R(1)>>
    ELSE LET t == RMul(RSub(val, Dec(75, 100)), R(4))
         IN  <<Lin(Dec(2, 10), Dec(8, 10), t), Lin(Dec(8, 10), Dec(2, 10), t),
               Lin(Dec(4, 10), Dec(-4, 10), t), R(1)>>

Hot(val) ==
    IF RLt(val, Dec(33, 100))
    THEN LET t == RMul(val, R(3))
         IN  <<t, R(0), R(0), Lin(Dec(7, 10), Dec(3, 10), t)>>
    ELSE IF RLt(val, Dec(66, 100))
    THEN LET t == RMul(RSub(val, Dec(33, 100)), R(3))
         IN  <<R(1), t, R(0), R(1)>>
    ELSE LET t == RMul(RSub(val, Dec(66, 100)), R(3))
         IN  <<R(1), R(1), t, R(1)>>

Cool(val) == <<val, RSub(R(1), val), R(1), Dec(8, 10)>>

Rainbow(val) ==
    LET hue == RMul(val, R(300))
        rgb == hsv_to_rgb(hue, R(1), R(1))
    IN  <<rgb[1], rgb[2], rgb[3], Dec(9, 10)>>

GreenRed(val) == <<val, RSub(R(1), val), R(0), Dec(8, 10)>>

\* The values the colour-scheme dropdown offers.
Schemes == {"plasma", "viridis", "hot", "cool", "rainbow", "green-red"}

\* One row of the array generate_color_scheme returns.
Color(val, scheme) ==
    IF scheme = "plasma" THEN Plasma(val)
    ELSE IF scheme = "viridis" THEN Viridis(val)
    ELSE IF scheme = "hot" THEN Hot(val)
    ELSE IF scheme = "cool" THEN Cool(val)
    ELSE IF scheme = "rainbow" THEN Rainbow(val)
    ELSE GreenRed(val)

\* generate_color_scheme: one RGBA row for each normalized value, in order.
generate_color_scheme_Positive(normalized_values, scheme) ==
    LET kept == SelectSeq(normalized_values, LAMBDA v : RLt(R(0), v))
    IN  [i \in 1..Len(kept) |-> Color(kept[i], scheme)]
generate_color_scheme(normalized_values, scheme) ==
    [i \in 1..Len(normalized_values) |-> Color(normalized_values[i], scheme)]

\* compute_population_colors, with the fields of self it reads:
\* [normalized, colors].
compute_population_colors(populations, logarithmic, scheme) ==
    LET normalized_values == Normalize(populations, logarithmic)
    IN  [normalized |-> normalized_values,
         colors |-> generate_color_scheme(normalized_values, scheme)]

(***************************************************************************)
(* The state: the fields of the EarthViewerFrame, its environment and the  *)
(* history the properties read.                                            *)
(***************************************************************************)
VARIABLES
    csvfile,            \* the file "GeoNames_Cleaned.csv" (environment)
    pc,                 \* "init": before the points are loaded; "mainloop": events
    points_vbo,         \* None, or the array of positions
    populations,        \* unset, or the array of populations
    point_count,
    colors_vbo,         \* None, or the array of RGBA rows
    normalized_pops,    \* the normalized_pops local of the last compute_population_colors
    color_scheme,
    use_logarithmic,
    rotation_angle_x,   \* half degrees
    rotation_angle_y,   \* half degrees
    sphere_rotation_x,  \* degrees
    sphere_rotation_y,
    sphere_rotation_z,
    last_mouse_pos,     \* <<x, y>>
    is_dragging,
    zoom,               \* tenths
    diagnostic,         \* what __init__ printed when loading failed
    event,              \* history: the handler that ran last
    drawn,              \* history: the draw calls of the handler that ran last
    error,              \* history: the exception the last handler raised, or None
    drag_origin,        \* history: at the last press, cloud rotation minus pixel position
    snap                \* history: a configuration, the colours it was given, and
                        \* whether another configuration has been set since

vars == <<csvfile, pc, points_vbo, populations, point_count, colors_vbo, normalized_pops,
          color_scheme, use_logarithmic, rotation_angle_x, rotation_angle_y,
          sphere_rotation_x, sphere_rotation_y, sphere_rotation_z, last_mouse_pos,
          is_dragging, zoom, diagnostic, event, drawn, error, drag_origin, snap>>

cloud == <<points_vbo, populations, point_count, colors_vbo, normalized_pops>>
config == <<color_scheme, use_logarithmic>>
cloud_rotation == <<rotation_angle_x, rotation_angle_y>>
sphere_rotation == <<sphere_rotation_x, sphere_rotation_y, sphere_rotation_z>>
mouse == <<last_mouse_pos, is_dragging, drag_origin>>

\* The fields redraw and the handlers read, as one value.
Self ==
    [points_vbo |-> points_vbo, populations |-> populations, point_count |-> point_count,
     colors_vbo |-> colors_vbo, rotation_angle_x |-> rotation_angle_x,
     rotation_angle_y |-> rotation_angle_y, sphere_rotation_x |-> sphere_rotation_x,
     sphere_rotation_y |-> sphere_rotation_y, sphere_rotation_z |-> sphere_rotation_z,
     zoom |-> zoom]

(***************************************************************************)
(* Program constants.                                                      *)
(***************************************************************************)
Radius == 25
InitialZoom == -80
zoom_increment == 1
ZoomNearest == -10
ZoomFarthest == -500

(***************************************************************************)
(* redraw.  The modelview matrix is the product of the transformations     *)
(* applied to it, kept as their sequence: <<"T", z>> a translation along   *)
(* the view axis, <<axis, a>> a rotation by a half degrees, 0 < a < 720.   *)
(* Multiplying by an identity changes nothing, and two successive          *)
(* rotations about one axis are one rotation.                              *)
(***************************************************************************)
glLoadIdentity == <<>>

glTranslatef(m, z) == IF z = 0 THEN m ELSE Append(m, <<"T", z>>)

glRotatef(m, angle, axis) ==
    LET a == angle % 720
    IN  IF a = 0 THEN m
        ELSE IF m # <<>> /\ m[Len(m)][1] = axis
             THEN LET b == (m[Len(m)][2] + a) % 720
                  IN  IF b = 0 THEN SubSeq(m, 1, Len(m) - 1)
                      ELSE [m EXCEPT ![Len(m)] = <<axis, b>>]
             ELSE Append(m, <<axis, a>>)

\* glPopMatrix: the matrix saved by glPushMatrix is current again.
glPopMatrix_Missing(saved, current) == current
glPopMatrix(saved, current) == saved

\* The test that guards the point-cloud pass.
HasPoints(s) == s.points_vbo # NoArray /\ s.point_count > 0

\* redraw: [calls, exc], the draw calls in order, each with the modelview
\* matrix it is issued under, and the exception raised (None: none).
redraw(s) ==
    LET m1 == glTranslatef(glLoadIdentity, s.zoom)
        m2 == glRotatef(m1, s.rotation_angle_x, "x")
        m3 == glRotatef(m2, s.rotation_angle_y, "y")
        saved == m3
        m4 == glRotatef(m3, 2 * s.sphere_rotation_x, "x")
        m5 == glRotatef(m4, 2 * s.sphere_rotation_y, "y")
        m6 == glRotatef(m5, 2 * s.sphere_rotation_z, "z")
        sphere == [prim |-> "sphere", modelview |-> m6, count |-> 1]
        m7 == glPopMatrix(saved, m6)
    IN  IF HasPoints(s)
        THEN IF s.points_vbo = NoArray \/ s.colors_vbo = NoArray
             THEN [calls |-> <<sphere>>, exc |-> "TypeError"]
             ELSE [calls |-> <<sphere, [prim |-> "points", modelview |-> m7,
                                        count |-> s.point_count]>>,
                   exc |-> PyNone]
        ELSE [calls |-> <<sphere>>, exc |-> PyNone]

(***************************************************************************)
(* Construction: the fields' defaults, then the loading of the points.     *)
(***************************************************************************)
InitWith(files) ==
    /\ csvfile \in files
    /\ pc = "init"
    /\ points_vbo = NoArray
    /\ populations = NoArray
    /\ point_count = 0
    /\ colors_vbo = NoArray
    /\ normalized_pops = NoArray
    /\ color_scheme = "plasma"
    /\ use_logarithmic = TRUE
    /\ rotation_angle_x = 0
    /\ rotation_angle_y = 0
    /\ sphere_rotation_x = 90
    /\ sphere_rotation_y = 0
    /\ sphere_rotation_z = 270
    /\ last_mouse_pos = <<0, 0>>
    /\ is_dragging = FALSE
    /\ zoom = InitialZoom
    /\ diagnostic = PyNone
    /\ event = "new"
    /\ drawn = <<>>
    /\ error = PyNone
    /\ drag_origin = <<0, 0>>
    /\ snap = [scheme |-> "plasma", logarithmic |-> TRUE, colors |-> NoArray,
               away |-> FALSE]

\* The "Load Points" block of __init__.
LoadPoints ==
    /\ pc = "init"
    /\ pc' = "mainloop"
    /\ \E r \in {generate_points_from_csv(csvfile, Radius)} :
           IF r.exc = "FileNotFoundError"
           THEN /\ diagnostic' = "not found"
                /\ UNCHANGED <<cloud, snap>>
           ELSE IF r.exc # PyNone
           THEN /\ diagnostic' = "An error occurred"
                /\ UNCHANGED <<cloud, snap>>
           ELSE IF r.points # <<>>
           THEN \E c \in {compute_population_colors(r.populations, use_logarithmic,
                                                      color_scheme)} :
                    /\ points_vbo' = Array(r.points)
                    /\ populations' = Array(r.populations)
                    /\ point_count' = Len(r.points)
                    /\ colors_vbo' = Array(c.colors)
                    /\ normalized_pops' = Array(c.normalized)
                    /\ snap' = [snap EXCEPT !.colors = Array(c.colors)]
                    /\ UNCHANGED diagnostic
           ELSE UNCHANGED <<cloud, snap, diagnostic>>
    /\ event' = "__init__"
    /\ UNCHANGED <<csvfile, config, cloud_rotation, sphere_rotation, mouse, zoom, drawn,
                   error>>

(***************************************************************************)
(* The mouse handlers.                                                     *)
(***************************************************************************)
on_mouse_press(p) ==
    /\ pc = "mainloop"
    /\ is_dragging' = TRUE
    /\ last_mouse_pos' = p
    /\ drag_origin' = <<rotation_angle_x - p[2], rotation_angle_y - p[1]>>
    /\ event' = "press"
    /\ drawn' = <<>>
    /\ error' = PyNone
    /\ UNCHANGED <<csvfile, pc, cloud, config, cloud_rotation, sphere_rotation, zoom,
                   diagnostic, snap>>

on_mouse_release ==
    /\ pc = "mainloop"
    /\ is_dragging' = FALSE
    /\ event' = "release"
    /\ drawn' = <<>>
    /\ error' = PyNone
    /\ UNCHANGED <<csvfile, pc, cloud, config, cloud_rotation, sphere_rotation, zoom,
                   diagnostic, snap, last_mouse_pos, drag_origin>>

\* The test that guards the body of on_mouse_drag.
DragActive_NoGuard(dragging) == TRUE
DragActive(dragging) == dragging

\* The position on_mouse_drag keeps as the reference of the next event.
DragReference_Kept(last, p) == last
DragReference(last, p) == p

on_mouse_drag(p) ==
    /\ pc = "mainloop"
    /\ IF DragActive(is_dragging)
       THEN LET dx == p[1] - last_mouse_pos[1]
                dy == p[2] - last_mouse_pos[2]
            IN  /\ rotation_angle_y' = rotation_angle_y + dx
                /\ rotation_angle_x' = rotation_angle_x + dy
                /\ last_mouse_pos' = DragReference(last_mouse_pos, p)
       ELSE UNCHANGED <<cloud_rotation, last_mouse_pos>>
    /\ event' = "drag"
    /\ drawn' = <<>>
    /\ error' = PyNone
    /\ UNCHANGED <<csvfile, pc, cloud, config, sphere_rotation, zoom, diagnostic, snap,
                   is_dragging, drag_origin>>

\* The clamp that ends on_mouse_wheel.
ClampZoom_Missing(z) == z
ClampZoom(z) == Max(Min(z, ZoomNearest), ZoomFarthest)

\* A wheel event: num is the button of a <Button-4>/<Button-5> event (0: none),
\* delta the rotation of a <MouseWheel> event.
on_mouse_wheel(e) ==
    /\ pc = "mainloop"
    /\ LET z == IF e.num = 5 \/ e.delta = -120 THEN zoom - zoom_increment
                ELSE IF e.num = 4 \/ e.delta = 120 THEN zoom + zoom_increment
                ELSE zoom
       IN  zoom' = ClampZoom(z)
    /\ event' = "wheel"
    /\ drawn' = <<>>
    /\ error' = PyNone
    /\ UNCHANGED <<csvfile, pc, cloud, config, cloud_rotation, sphere_rotation, mouse,
                   diagnostic, snap>>

(***************************************************************************)
(* The frame timer and the controls.                                       *)
(***************************************************************************)
\* A frame of the animation loop (app.animate = 1): redraw.
Frame ==
    /\ pc = "mainloop"
    /\ \E r \in {redraw(Self)} : drawn' = r.calls /\ error' = r.exc
    /\ event' = "redraw"
    /\ UNCHANGED <<csvfile, pc, cloud, config, cloud_rotation, sphere_rotation, mouse,
                   zoom, diagnostic, snap>>

\* update_sphere_rotation: the three sliders' values, then redraw.
update_sphere_rotation(x, y, z) ==
    /\ pc = "mainloop"
    /\ sphere_rotation_x' = x
    /\ sphere_rotation_y' = y
    /\ sphere_rotation_z' = z
    /\ \E r \in {redraw([Self EXCEPT !.sphere_rotation_x = x, !.sphere_rotation_y = y,
                                       !.sphere_rotation_z = z])} :
           drawn' = r.calls /\ error' = r.exc
    /\ event' = "sliders"
    /\ UNCHANGED <<csvfile, pc, cloud, config, cloud_rotation, mouse, zoom, diagnostic,
                   snap>>

\* The test that guards the recomputation in update_heatmap_settings.
HasPopulations_NoGuard(pops) == TRUE
HasPopulations(pops) == pops # NoArray

\* The configuration compute_population_colors reads in update_heatmap_settings.
ConfigRead_Stale(old, new) == old
ConfigRead(old, new) == new

\* update_heatmap_settings(scheme, logarithmic): an argument is <<>> (None) or
\* <<value>>.  mark: the history variable snap records the result.
update_heatmap_settings(scheme, logarithmic, mark) ==
    LET new_scheme == IF scheme # <<>> THEN Get(scheme) ELSE color_scheme
        new_logarithmic == IF logarithmic # <<>> THEN Get(logarithmic) ELSE use_logarithmic
        cfg == ConfigRead(<<color_scheme, use_logarithmic>>, <<new_scheme, new_logarithmic>>)
    IN  /\ pc = "mainloop"
        /\ color_scheme' = new_scheme
        /\ use_logarithmic' = new_logarithmic
        /\ IF HasPopulations(populations)
           THEN IF populations = NoArray
                THEN /\ error' = "AttributeError"
                     /\ drawn' = <<>>
                     /\ UNCHANGED <<colors_vbo, normalized_pops>>
                ELSE \E c \in {compute_population_colors(Get(populations), cfg[2], cfg[1])} :
                     LET r == redraw([Self EXCEPT !.colors_vbo = Array(c.colors)])
                     IN  /\ colors_vbo' = Array(c.colors)
                         /\ normalized_pops' = Array(c.normalized)
                         /\ drawn' = r.calls
                         /\ error' = r.exc
           ELSE /\ drawn' = <<>>
                /\ error' = PyNone
                /\ UNCHANGED <<colors_vbo, normalized_pops>>
        /\ snap' = IF mark
                   THEN [scheme |-> new_scheme, logarithmic |-> new_logarithmic,
                         colors |-> colors_vbo', away |-> FALSE]
                   ELSE [snap EXCEPT !.away = @ \/ <<new_scheme, new_logarithmic>> #
                                                   <<snap.scheme, snap.logarithmic>>]
        /\ event' = "heatmap"
        /\ UNCHANGED <<csvfile, pc, points_vbo, populations, point_count, cloud_rotation,
                       sphere_rotation, mouse, zoom, diagnostic>>

(***************************************************************************)
(* The inputs.                                                             *)
(***************************************************************************)
Pixels == (0..MaxPix) \X (0..MaxPix)
RowPixels == {<<x, 0>> : x \in 0..MaxPix}

\* Button-4, Button-5, a wheel notch either way, a double notch, no rotation.
WheelEvents ==
    {[num |-> 4, delta |-> 0], [num |-> 5, delta |-> 0], [num |-> 0, delta |-> 120],
     [num |-> 0, delta |-> -120], [num |-> 0, delta |-> 240], [num |-> 0, delta |-> 0]}

SliderValues == {0, 90}

SchemeArgs == {<<>>} \cup {<<s>> : s \in Schemes}
LogArgs == {<<>>, <<TRUE>>, <<FALSE>>}

DigitChars == <<"0", "1", "2", "3", "4", "5", "6", "7", "8", "9">>
\* The text of a one-digit number.
Numeral(n) == <<DigitChars[n + 1]>>

SeqsUpTo(S, n) == UNION {[1..k -> S] : k \in 0..n}

Missing == [exists |-> FALSE, header |-> <<>>, rows |-> <<>>]
File(header, rows) == [exists |-> TRUE, header |-> header, rows |-> rows]

Header3 == <<"Latitude", "Longitude", "Population">>

\* Files of valid rows at one place, with every population in 0..MaxPop.
HeatmapRows == {<<Numeral(0), Numeral(0), Numeral(p)>> : p \in 0..MaxPop}
HeatmapFiles == {File(Header3, rows) : rows \in SeqsUpTo(HeatmapRows, MaxRows)}

\* Files of a few valid rows with the populations 0, 1 and MaxPop.
TripRows == {<<Numeral(0), Numeral(0), Numeral(p)>> : p \in {0, 1, MaxPop}}
TripFiles == {File(Header3, rows) : rows \in SeqsUpTo(TripRows, MaxTripRows)}

\* Files of valid and invalid rows under several headers.
IngestHeaders ==
    {Header3,
     <<"Latitude", "Longitude", "Population", "pop">>,
     <<"Latitude", "Longitude">>,
     <<"Longitude", "Population">>}
IngestRows ==
    {<<Numeral(0), Numeral(0), Numeral(1)>>,        \* valid
     <<<<"9", "0">>, Numeral(0), Numeral(2)>>,      \* valid, at the pole
     <<<<"x">>, Numeral(0), Numeral(1)>>,           \* Latitude is no number
     <<Numeral(0), <<>>, Numeral(1)>>,              \* Longitude is empty
     <<Numeral(0)>>,                                \* no Longitude cell
     <<Numeral(0), <<"9", "0">>>>,                  \* no population cell
     <<Numeral(0), Numeral(0), <<"x">>>>,           \* the population is no number
     <<Numeral(0), Numeral(0), <<>>>>,              \* the population is empty
     <<Numeral(0), Numeral(0), <<"x">>, Numeral(3)>>}
IngestFiles ==
    {Missing} \cup
    {File(h, rows) : h \in IngestHeaders, rows \in SeqsUpTo(IngestRows, MaxRows)}

\* Files of a few rows, valid and invalid, with the populations 0, 1, 2 and
\* MaxPop, and no file.
ArrayRows ==
    TripRows \cup
    {<<<<"9", "0">>, Numeral(0), Numeral(2)>>,      \* valid, at the pole
     <<<<"x">>, Numeral(0), Numeral(1)>>,           \* Latitude is no number
     <<Numeral(0)>>}                                \* no Longitude cell
ArrayFiles == {Missing} \cup {File(Header3, rows) : rows \in SeqsUpTo(ArrayRows, MaxTripRows)}

\* One file of two cities, and no file.
TwoCities == File(Header3, <<<<Numeral(0), Numeral(0), Numeral(1)>>,
                             <<<<"9", "0">>, Numeral(0), Numeral(3)>>>>)

Files == HeatmapFiles \cup IngestFiles

(***************************************************************************)
(* The events, over the inputs.                                            *)
(***************************************************************************)
MousePress(P) == \E p \in P : on_mouse_press(p)

MouseRelease == on_mouse_release

MouseDrag(P) ==
    \E p \in P :
        /\ on_mouse_drag(p)
        /\ Abs(rotation_angle_x') <= MaxRot
        /\ Abs(rotation_angle_y') <= MaxRot

MouseWheel == \E e \in WheelEvents : on_mouse_wheel(e)

MouseWheelNear ==
    \E e \in WheelEvents :
        /\ on_mouse_wheel(e)
        /\ Abs(zoom' - InitialZoom) <= MaxNotch

\* One slider is moved; its callback reads all three, and the other two still
\* show the values the frame holds.
Sliders ==
    \E v \in SliderValues :
        \/ update_sphere_rotation(v, sphere_rotation_y, sphere_rotation_z)
        \/ update_sphere_rotation(sphere_rotation_x, v, sphere_rotation_z)
        \/ update_sphere_rotation(sphere_rotation_x, sphere_rotation_y, v)

\* update_heatmap, the trace callback of the dropdown and of the checkbox: both
\* arguments are given.
Heatmap == \E s \in Schemes, l \in BOOLEAN : update_heatmap_settings(<<s>>, <<l>>, FALSE)

\* update_heatmap_settings with any arguments.
HeatmapAny == \E s \in SchemeArgs, l \in LogArgs : update_heatmap_settings(s, l, FALSE)

\* update_heatmap_settings with any arguments, recorded in snap or not.
HeatmapMarked ==
    \E s \in SchemeArgs, l \in LogArgs, mark \in BOOLEAN : update_heatmap_settings(s, l, mark)

(***************************************************************************)
(* The specifications.                                                     *)
(***************************************************************************)
Init == InitWith(Files)

Next ==
    \/ LoadPoints
    \/ MousePress(Pixels)
    \/ MouseRelease
    \/ MouseDrag(Pixels)
    \/ MouseWheelNear
    \/ Frame
    \/ Sliders
    \/ HeatmapMarked

Spec == Init /\ [][Next]_vars

\* The wheel over the whole range of the zoom, among the other mouse events.
NextZoom ==
    \/ LoadPoints
    \/ MouseWheel
    \/ MousePress(RowPixels)
    \/ MouseRelease
    \/ MouseDrag(RowPixels)

SpecZoom == InitWith({TwoCities}) /\ [][NextZoom]_vars

\* The drag gestures.
NextDrag ==
    \/ LoadPoints
    \/ MousePress(Pixels)
    \/ MouseRelease
    \/ MouseDrag(Pixels)
    \/ MouseWheelNear

SpecDrag == InitWith({TwoCities}) /\ [][NextDrag]_vars

\* The frames, under both rotations.
NextScene ==
    \/ LoadPoints
    \/ MousePress(Pixels)
    \/ MouseRelease
    \/ MouseDrag(Pixels)
    \/ Sliders
    \/ Frame

SpecScene == InitWith({TwoCities, Missing}) /\ [][NextScene]_vars

\* The colours of the loaded populations under every configuration.
NextHeatmap ==
    \/ LoadPoints
    \/ Heatmap
    \/ Frame

SpecHeatmap == InitWith(HeatmapFiles) /\ [][NextHeatmap]_vars

NextRoundTrip ==
    \/ LoadPoints
    \/ HeatmapMarked

SpecRoundTrip == InitWith(TripFiles) /\ [][NextRoundTrip]_vars

\* The three arrays of the point cloud, from the loading on, under every
\* sequence of calls of update_heatmap_settings.
NextArrays ==
    \/ LoadPoints
    \/ HeatmapAny
    \/ Frame

SpecArrays == InitWith(ArrayFiles) /\ [][NextArrays]_vars

\* The loading of every input file.
NextIngest ==
    \/ LoadPoints
    \/ Frame

SpecIngest == InitWith(IngestFiles) /\ [][NextIngest]_vars

\* Every event, with no input file.
NextMissing ==
    \/ LoadPoints
    \/ MousePress(RowPixels)
    \/ MouseRelease
    \/ MouseDrag(RowPixels)
    \/ MouseWheelNear
    \/ Frame
    \/ Sliders
    \/ Heatmap

SpecMissing == InitWith({Missing}) /\ [][NextMissing]_vars

(***************************************************************************)
(* The properties.                                                         *)
(***************************************************************************)

\* C1: from the initial zoom of -8, after any sequence of wheel events mixed
\* with the other mouse events, the zoom lies in [-50.0, -1.0].
ZoomInRange == ZoomFarthest <= zoom /\ zoom <= ZoomNearest

\* A wheel event has left the zoom at the far limit.
ZoomAtFarLimit == event = "wheel" /\ zoom = ZoomFarthest

\* C2: dragging is a binary state set by a press and cleared by a release, and
\* a drag event that arrives while no drag is active leaves the cloud rotation
\* unchanged, whatever its position.
IdleDragIsNoOp ==
    [][/\ is_dragging' \in BOOLEAN
       /\ event' = "press" => is_dragging'
       /\ event' = "release" => ~is_dragging'
       /\ event' \notin {"press", "release"} => is_dragging' = is_dragging
       /\ (event' = "drag" /\ ~is_dragging) => UNCHANGED cloud_rotation]_vars

\* A drag event has arrived after a gesture that turned the cloud had ended.
IdleDragSeen == event = "drag" /\ ~is_dragging /\ rotation_angle_y # 0

\* C3 as stated: in every frame, the matrix the sphere is drawn under is the
\* same for every cloud rotation, and the matrix the points are drawn under is
\* the same for every sphere rotation.
CloudAngles == (-MaxRot)..MaxRot
FrameRotationsIndependent ==
    drawn # <<>> =>
        /\ \A cx, cy \in CloudAngles :
              redraw([Self EXCEPT !.rotation_angle_x = cx,
                                  !.rotation_angle_y = cy]).calls[1].modelview
                  = drawn[1].modelview
        /\ Len(drawn) = 2 =>
              \A sx, sy, sz \in SliderValues :
                  redraw([Self EXCEPT !.sphere_rotation_x = sx, !.sphere_rotation_y = sy,
                                      !.sphere_rotation_z = sz]).calls[2].modelview
                      = drawn[2].modelview

\* C3 as amended: the matrix the points are drawn under is the same for every
\* sphere rotation, and the sphere is drawn under that matrix turned by the
\* sphere rotation about X, then Y, then Z.
FramePointsIndependentOfSphere ==
    Len(drawn) = 2 =>
        /\ drawn[1].prim = "sphere" /\ drawn[2].prim = "points"
        /\ \A sx, sy, sz \in SliderValues :
              redraw([Self EXCEPT !.sphere_rotation_x = sx, !.sphere_rotation_y = sy,
                                  !.sphere_rotation_z = sz]).calls[2].modelview
                  = drawn[2].modelview
        /\ drawn[1].modelview =
              glRotatef(glRotatef(glRotatef(drawn[2].modelview,
                                            2 * sphere_rotation_x, "x"),
                                  2 * sphere_rotation_y, "y"),
                        2 * sphere_rotation_z, "z")

\* A frame with both passes, drawn after a drag turned the cloud about both
\* axes and a slider turned the sphere.
FrameWithBothRotations ==
    /\ Len(drawn) = 2
    /\ rotation_angle_x # 0 /\ rotation_angle_y # 0
    /\ sphere_rotation_y # 0
    /\ drawn[1].modelview # drawn[2].modelview

\* C10: while a drag is active each drag event adds half the pixel delta since
\* the previous press or drag event to the cloud rotation (x delta to Y, y
\* delta to X) and keeps its position as the new reference; so from a press at
\* p0 to the last event at pn the rotation has changed by 0.5 * (pn - p0):
\* rotation - 0.5 * pn is what it was at the press.
DragOffsetKept ==
    /\ rotation_angle_x - last_mouse_pos[2] = drag_origin[1]
    /\ rotation_angle_y - last_mouse_pos[1] = drag_origin[2]

DragStepAddsDelta ==
    [][(event' = "drag" /\ is_dragging) =>
          /\ rotation_angle_y' = rotation_angle_y + (last_mouse_pos'[1] - last_mouse_pos[1])
          /\ rotation_angle_x' = rotation_angle_x + (last_mouse_pos'[2] - last_mouse_pos[2])]_vars

DragAccumulatesDeltas == []DragOffsetKept /\ DragStepAddsDelta

\* An active drag has turned the cloud about both axes.
DragTurnedCloud ==
    event = "drag" /\ is_dragging /\ rotation_angle_x # 0 /\ rotation_angle_y # 0

\* The transformed populations the loaded colours were computed from, and the
\* strictly positive ones among them.
Transformed == Transform(Get(populations), use_logarithmic)
PositiveValues == {v \in {Transformed[i] : i \in 1..Len(Transformed)} : v > 0}
Smallest(S) == CHOOSE m \in S : \A v \in S : m <= v
Normalized == Get(normalized_pops)

DegenerateRangeGivesZeros ==
    normalized_pops # NoArray =>
        /\ error = PyNone
        /\ \A i \in 1..Len(Normalized) : IsFinite(Normalized[i])
        /\ Cardinality(PositiveValues) <= 1 =>
              \A i \in 1..Len(Normalized) : Normalized[i] = R(0)

\* Equal positive populations beside a zero one have been normalized after a
\* change of the configuration.
DegenerateRangeSeen ==
    /\ normalized_pops # NoArray
    /\ event = "heatmap"
    /\ Cardinality(PositiveValues) = 1
    /\ \E i, j \in 1..Len(Normalized) : i # j /\ Transformed[i] > 0 /\ Transformed[j] > 0
    /\ \E i \in 1..Len(Normalized) : Transformed[i] = 0

\* C6: for every scheme and every normalized value, the four components of
\* the colour lie in [0,1]; and hot(0) = (0,0,0,0.7), hot(1) = (1,1,1,1.0).
ColorsInUnit ==
    colors_vbo # NoArray =>
        \A i \in 1..Len(Get(colors_vbo)) :
            /\ \A k \in 1..4 : InUnit(Get(colors_vbo)[i][k])
            /\ (color_scheme = "hot" /\ Normalized[i] = R(0))
                   => Get(colors_vbo)[i] = <<R(0), R(0), R(0), Dec(7, 10)>>
            /\ (color_scheme = "hot" /\ Normalized[i] = R(1))
                   => Get(colors_vbo)[i] = <<R(1), R(1), R(1), R(1)>>

DataRows == SelectSeq(csvfile.rows, LAMBDA cells : cells # <<>>)
HasCell(cells, col) ==
    \E j \in 1..Len(csvfile.header) : csvfile.header[j] = col /\ j <= Len(cells)
Cell(cells, col) == cells[CHOOSE j \in 1..Len(csvfile.header) : csvfile.header[j] = col]
IsNumber(cells, col) ==
    /\ HasCell(cells, col)
    /\ LET t == Cell(cells, col)
       IN  IsDigits(t) \/ (t # <<>> /\ Head(t) = "-" /\ IsDigits(Tail(t)))
NumberAt(cells, col) ==
    LET t == Cell(cells, col)
    IN  IF Head(t) = "-" THEN -DigitsValue(Tail(t), 0) ELSE DigitsValue(t, 0)
ValidRows ==
    SelectSeq(DataRows, LAMBDA cells : IsNumber(cells, "Latitude") /\ IsNumber(cells, "Longitude"))
\* The first population column that holds a number, or 0.
WantedPopulation(cells) ==
    LET with == {i \in 1..Len(PopCols) : IsNumber(cells, PopCols[i])}
    IN  IF with = {} THEN 0 ELSE NumberAt(cells, PopCols[Smallest(with)])

\* C8: loading drops exactly the invalid rows and goes on: a row whose
\* Latitude or Longitude is missing or no number gives no point and does not
\* stop the rows after it, every other row gives one point, and a row whose
\* population is missing or no number gets population 0.
LoadKeepsValidRows ==
    (pc = "mainloop" /\ csvfile.exists) =>
        /\ point_count = Len(ValidRows)
        /\ ValidRows # <<>> =>
              /\ populations # NoArray
              /\ Get(populations) = [i \in 1..Len(ValidRows) |-> WantedPopulation(ValidRows[i])]

\* C9: with no input file, construction ends with an empty point cloud, and
\* from then on every redraw draws the sphere only and no handler raises.
MissingFileRecovered ==
    (pc = "mainloop" /\ ~csvfile.exists) =>
        /\ points_vbo = NoArray /\ colors_vbo = NoArray /\ populations = NoArray
        /\ point_count = 0
        /\ diagnostic = "not found"
        /\ error = PyNone
        /\ drawn # <<>> => (Len(drawn) = 1 /\ drawn[1].prim = "sphere")

\* With no input file, a frame is drawn after a drag, a wheel notch, a slider
\* and a change of scheme and of scale.
MissingFileFrame ==
    /\ ~csvfile.exists
    /\ event = "redraw" /\ drawn # <<>>
    /\ rotation_angle_y # 0
    /\ zoom # InitialZoom
    /\ sphere_rotation_x # 90
    /\ color_scheme = "hot" /\ ~use_logarithmic

\* The colour of the i-th loaded population under the configuration in force.
ColorOfPopulation(i) ==
    Color(Normalize(Get(populations), use_logarithmic)[i], color_scheme)

\* After construction the three arrays are all absent, with point_count 0, or
\* all present with point_count rows each, the i-th colour being the colour of
\* the i-th population.
ArraysAligned ==
    pc = "mainloop" =>
        IF points_vbo = NoArray
        THEN colors_vbo = NoArray /\ populations = NoArray /\ point_count = 0
        ELSE /\ populations # NoArray /\ colors_vbo # NoArray
             /\ point_count > 0
             /\ Len(Get(points_vbo)) = point_count
             /\ Len(Get(populations)) = point_count
             /\ Len(Get(colors_vbo)) = point_count
             /\ \A i \in 1..point_count : Get(colors_vbo)[i] = ColorOfPopulation(i)

\* After construction no step changes the positions, the populations or
\* point_count.
ArraysFrozen == pc = "mainloop" => UNCHANGED <<points_vbo, populations, point_count>>

\* C11: in every state after construction, whatever calls of
\* update_heatmap_settings were made, the positions, the populations and the
\* colours have the same length, which is point_count, the i-th colour is the
\* colour of the i-th population under the scheme and scale in force, and the
\* positions and the populations are never changed after the loading (only
\* the colours are replaced, as a whole).
CloudArraysConsistent == []ArraysAligned /\ [][ArraysFrozen]_vars

\* Two points with different populations, one of them 0, after the scheme
\* and the scale were changed and the colours replaced.
CloudArraysRecolored ==
    /\ pc = "mainloop" /\ event = "heatmap"
    /\ point_count = 2
    /\ populations # NoArray /\ colors_vbo # NoArray
    /\ Get(populations)[1] # Get(populations)[2]
    /\ \E i \in 1..2 : Get(populations)[i] = 0
    /\ color_scheme = "viridis" /\ ~use_logarithmic
    /\ snap.colors # colors_vbo

====
